---- MODULE Spec2Model ----
(***************************************************************************)
(* A model of the lexer of src/src/lib.rs (struct Lexer and its Iterator   *)
(* implementation) and of the tokens of src/src/token.rs.                  *)
(*                                                                         *)
(* A character is its Unicode scalar value (a natural number) and a string *)
(* is the sequence of its characters.  The UTF-8 layout of a string, which *)
(* str::len and the range index &input[a..b] work on, is computed from the *)
(* characters by len_utf8.                                                 *)
(***************************************************************************)
EXTENDS Integers, Sequences, FiniteSets, TLC

(***************************************************************************)
(* Bounds of the model.                                                    *)
(***************************************************************************)
\* The longest input that is enumerated over the whole alphabet.
MaxLen == 4

(***************************************************************************)
(* Characters.                                                             *)
(***************************************************************************)
\* '\0', the value of ch past the end of the input.
NUL == 0

\* char::len_utf8: the number of bytes of the UTF-8 encoding of c.
len_utf8(c) ==
  IF c < 128 THEN 1
  ELSE IF c < 2048 THEN 2
  ELSE IF c < 65536 THEN 3
  ELSE 4

\* Whitespace, with '\0' counted as whitespace too.
is_whitespace_or_nul(c) ==
  \/ c = 0
  \/ c \in 9..13
  \/ c \in {32, 133, 160, 5760}
  \/ c \in 8192..8202
  \/ c \in {8232, 8233, 8239, 8287, 12288}

\* char::is_whitespace: the characters of Unicode property White_Space.
is_whitespace(c) ==
  \/ c \in 9..13
  \/ c \in {32, 133, 160, 5760}
  \/ c \in 8192..8202
  \/ c \in {8232, 8233, 8239, 8287, 12288}

\* char::is_ascii_digit.
is_ascii_digit(c) == c \in 48..57

\* char::is_alphabetic, exact on U+0000..U+00FF; of the characters above
\* U+00FF the alphabet of the model holds only non-alphabetic ones.
is_alphabetic(c) ==
  \/ c \in 65..90
  \/ c \in 97..122
  \/ c \in {170, 181, 186}
  \/ c \in 192..214
  \/ c \in 216..246
  \/ c \in 248..255

\* The conventional identifier rule, which lets digits continue a name.
is_letter_or_digit(c) == is_alphabetic(c) \/ c = 95 \/ is_ascii_digit(c)

\* Lexer::is_letter, on the character under examination.
is_letter(c) == is_alphabetic(c) \/ c = 95

\* Lexer::is_digit, on the character under examination.
is_digit(c) == is_ascii_digit(c)

(***************************************************************************)
(* Tokens.                                                                 *)
(***************************************************************************)
\* TokenKind::Literal { kind }.
Literal(kind) == <<"Literal", kind>>

\* A TokenKind without fields.
Unit(name) == <<name>>

\* Token::new.
Token_new(kind, literal) == [kind |-> kind, literal |-> literal]

\* The match arms of next() with two kinds exchanged.
SingleCharKindSwapped ==
  (59 :> "Comma") @@ (44 :> "Semi") @@ (46 :> "Dot") @@
  (40 :> "OpenParen") @@ (41 :> "CloseParen") @@
  (123 :> "OpenBrace") @@ (125 :> "CloseBrace") @@
  (91 :> "OpenBracket") @@ (93 :> "CloseBracket") @@
  (64 :> "At") @@ (35 :> "Pound") @@ (126 :> "Tilde") @@
  (33 :> "Bang") @@ (61 :> "Eq") @@ (43 :> "Plus") @@ (45 :> "Minus") @@
  (42 :> "Star") @@ (47 :> "Slash") @@ (60 :> "Lt") @@ (62 :> "Gt") @@
  (38 :> "And") @@ (124 :> "Or") @@ (94 :> "Caret") @@ (58 :> "Colon") @@
  (63 :> "Question") @@ (36 :> "Dollar") @@ (37 :> "Percent")

\* The one-character match arms of next(): character |-> TokenKind.
SingleCharKind ==
  (59 :> "Semi") @@ (44 :> "Comma") @@ (46 :> "Dot") @@
  (40 :> "OpenParen") @@ (41 :> "CloseParen") @@
  (123 :> "OpenBrace") @@ (125 :> "CloseBrace") @@
  (91 :> "OpenBracket") @@ (93 :> "CloseBracket") @@
  (64 :> "At") @@ (35 :> "Pound") @@ (126 :> "Tilde") @@
  (33 :> "Bang") @@ (61 :> "Eq") @@ (43 :> "Plus") @@ (45 :> "Minus") @@
  (42 :> "Star") @@ (47 :> "Slash") @@ (60 :> "Lt") @@ (62 :> "Gt") @@
  (38 :> "And") @@ (124 :> "Or") @@ (94 :> "Caret") @@ (58 :> "Colon") @@
  (63 :> "Question") @@ (36 :> "Dollar") @@ (37 :> "Percent")

\* The characters that have a match arm of their own.
SingleChars == DOMAIN SingleCharKind

\* The doc comments of the one-char TokenKinds in token.rs: kind |-> the
\* character it stands for.
KindSymbol ==
  ("Semi" :> 59) @@ ("Comma" :> 44) @@ ("Dot" :> 46) @@
  ("OpenParen" :> 40) @@ ("CloseParen" :> 41) @@
  ("OpenBrace" :> 123) @@ ("CloseBrace" :> 125) @@
  ("OpenBracket" :> 91) @@ ("CloseBracket" :> 93) @@
  ("At" :> 64) @@ ("Pound" :> 35) @@ ("Tilde" :> 126) @@
  ("Question" :> 63) @@ ("Colon" :> 58) @@ ("Dollar" :> 36) @@
  ("Eq" :> 61) @@ ("Bang" :> 33) @@ ("Lt" :> 60) @@ ("Gt" :> 62) @@
  ("Minus" :> 45) @@ ("And" :> 38) @@ ("Or" :> 124) @@ ("Plus" :> 43) @@
  ("Star" :> 42) @@ ("Slash" :> 47) @@ ("Caret" :> 94) @@ ("Percent" :> 37)

\* The kinds of the one-char tokens.
OneCharKinds == DOMAIN KindSymbol

(***************************************************************************)
(* Strings.                                                                *)
(***************************************************************************)
\* The number of characters of s whose encoding has at least n bytes.
chars_of_width(s, n) == Cardinality({i \in 1..Len(s) : len_utf8(s[i]) >= n})

\* str::len: the length of s in bytes, the sum of len_utf8 over s.
len(s) ==
  chars_of_width(s, 1) + chars_of_width(s, 2) + chars_of_width(s, 3)
    + chars_of_width(s, 4)

\* The byte offset at which character number i (from 0) of s starts.
byte_offset(s, i) == len(SubSeq(s, 1, i))

\* str::is_char_boundary.
is_char_boundary(s, k) == \E i \in 0..Len(s) : byte_offset(s, i) = k

\* Whether &s[a..b] is a string (it panics otherwise).
slice_ok(s, a, b) ==
  a <= b /\ b <= len(s) /\ is_char_boundary(s, a) /\ is_char_boundary(s, b)

\* &s[a..b] read by character position instead of byte offset.
slice_by_chars(s, a, b) == SubSeq(s, a + 1, b)

\* &s[a..b]: the characters of s that lie in the bytes a..b-1.
slice(s, a, b) ==
  LET first == CHOOSE i \in 0..Len(s) : byte_offset(s, i) = a
      last  == CHOOSE i \in 0..Len(s) : byte_offset(s, i) = b
  IN  SubSeq(s, first + 1, last)

(***************************************************************************)
(* The inputs of the tests of lib.rs, as their raw string literals.        *)
(***************************************************************************)
SingleCharInput ==
  <<
    10, 32, 32, 32, 32, 32, 32, 32, 32, 32, 32, 32, 32, 59, 44, 46, 40, 41,
    123, 125, 91, 93, 64, 35, 126, 33, 61, 43, 45, 42, 47, 60, 62, 38, 124,
    94, 58, 63, 36, 37, 10, 32, 32, 32, 32, 32, 32, 32, 32
  >>

NextTokenInput ==
  <<
    10, 32, 32, 32, 32, 32, 32, 32, 32, 32, 32, 32, 32, 108, 101, 116, 32,
    102, 105, 118, 101, 32, 61, 32, 53, 59, 10, 32, 32, 32, 32, 32, 32, 32,
    32
  >>

FnDeclarationInput ==
  <<
    10, 32, 32, 32, 32, 32, 32, 32, 32, 32, 32, 32, 32, 108, 101, 116, 32,
    102, 105, 118, 101, 32, 61, 32, 53, 46, 48, 59, 10, 32, 32, 32, 32, 32,
    32, 32, 32, 32, 32, 32, 32, 108, 101, 116, 32, 116, 101, 110, 32, 61, 32,
    49, 48, 59, 10, 32, 32, 32, 32, 32, 32, 32, 32, 32, 32, 32, 32, 108, 101,
    116, 32, 97, 100, 100, 32, 61, 32, 102, 110, 40, 120, 44, 32, 121, 41,
    32, 123, 10, 32, 32, 32, 32, 32, 32, 32, 32, 32, 32, 32, 32, 32, 32, 32,
    32, 114, 101, 116, 117, 114, 110, 32, 120, 32, 43, 32, 121, 59, 10, 32,
    32, 32, 32, 32, 32, 32, 32, 32, 32, 32, 32, 125, 59, 10, 32, 32, 32, 32,
    32, 32, 32, 32, 32, 32, 32, 32, 108, 101, 116, 32, 114, 101, 115, 117,
    108, 116, 32, 61, 32, 97, 100, 100, 40, 102, 105, 118, 101, 44, 32, 116,
    101, 110, 41, 59, 10, 32, 32, 32, 32, 32, 32, 32, 32
  >>

WhileLoopInput ==
  <<
    10, 32, 32, 32, 32, 32, 32, 32, 32, 32, 32, 32, 32, 108, 101, 116, 32,
    105, 32, 61, 32, 48, 59, 10, 32, 32, 32, 32, 32, 32, 32, 32, 32, 32, 32,
    32, 119, 104, 105, 108, 101, 32, 40, 105, 32, 60, 32, 49, 48, 41, 32,
    123, 10, 32, 32, 32, 32, 32, 32, 32, 32, 32, 32, 32, 32, 32, 32, 32, 32,
    105, 32, 61, 32, 105, 32, 43, 32, 49, 59, 10, 32, 32, 32, 32, 32, 32, 32,
    32, 32, 32, 32, 32, 125, 10, 32, 32, 32, 32, 32, 32, 32, 32
  >>

\* The tokens test_while_loop expects.
WhileLoopExpected ==
  <<
    Token_new(Unit("Ident"), <<108, 101, 116>>),
    Token_new(Unit("Ident"), <<105>>),
    Token_new(Unit("Eq"), <<61>>),
    Token_new(Literal("Int"), <<48>>),
    Token_new(Unit("Semi"), <<59>>),
    Token_new(Unit("Ident"), <<119, 104, 105, 108, 101>>),
    Token_new(Unit("OpenParen"), <<40>>),
    Token_new(Unit("Ident"), <<105>>),
    Token_new(Unit("Lt"), <<60>>),
    Token_new(Literal("Int"), <<49, 48>>),
    Token_new(Unit("CloseParen"), <<41>>),
    Token_new(Unit("OpenBrace"), <<123>>),
    Token_new(Unit("Ident"), <<105>>),
    Token_new(Unit("Eq"), <<61>>),
    Token_new(Unit("Ident"), <<105>>),
    Token_new(Unit("Plus"), <<43>>),
    Token_new(Literal("Int"), <<49>>),
    Token_new(Unit("Semi"), <<59>>),
    Token_new(Unit("CloseBrace"), <<125>>)
  >>

TestInputs ==
  {SingleCharInput, NextTokenInput, FnDeclarationInput, WhileLoopInput}

(***************************************************************************)
(* The inputs of the model: every string of at most MaxLen characters over *)
(* Alphabet, some strings of one and two characters outside it, and the    *)
(* inputs of the tests.                                                    *)
(*   0 NUL   32 space   34 the quote (no arm, no letter, no digit)         *)
(*   49 '1'  59 ';'     97 'a'                                             *)
(*   160 no-break space (whitespace, 2 bytes)                              *)
(*   233 e-acute (alphabetic, 2 bytes)                                     *)
(*   8364 euro sign (no letter, 3 bytes)                                   *)
(***************************************************************************)
Alphabet == {0, 32, 34, 49, 59, 97, 160, 233, 8364}

BoundedInputs == UNION {[1..n -> Alphabet] : n \in 0..MaxLen}

\* One character of each further class, alone and after an 'a': the
\* characters with a match arm, newline, '_', the numero sign of the
\* comment on TokenKind::Unknown (3 bytes) and an emoji (4 bytes).
ProbeChars == SingleChars \cup {10, 95, 8470, 128512}

ProbeInputs ==
  {<<c>> : c \in ProbeChars} \cup {<<97, c>> : c \in ProbeChars}
    \cup {<<53, 46, 48>>}

Inputs == BoundedInputs \cup ProbeInputs \cup TestInputs

(***************************************************************************)
(* The state: the fields of Lexer, the place of the caller's loop in       *)
(* next() (pc), the local `position` of read_ident and read_number         *)
(* (start), and what the caller has seen: the tokens returned so far, the  *)
(* character positions each was scanned from and to (spans), the last      *)
(* return value of next() (ret) and the panic that ended the run, if any:  *)
(* what panicked (why) and in which method (at).                           *)
(***************************************************************************)
VARIABLES input, position, read_position, ch, pc, start, tokens, spans, ret,
          panic

vars ==
  <<input, position, read_position, ch, pc, start, tokens, spans, ret, panic>>

lexer == <<position, read_position, ch>>

NoPanic == [why |-> "none", at |-> "none"]

\* Lexer::read_char from read position rp: the fields it assigns, or the
\* panic of unwrap() on None when the string has no character number rp.
read_char(s, rp) ==
  IF rp >= len(s)
  THEN [ok |-> TRUE, ch |-> NUL, position |-> rp, read_position |-> rp + 1]
  ELSE IF rp < Len(s)
  THEN [ok |-> TRUE, ch |-> s[rp + 1], position |-> rp,
        read_position |-> rp + 1]
  ELSE [ok |-> FALSE, ch |-> NUL, position |-> rp, read_position |-> rp]

\* Lexer::new without its call of read_char.
Lexer_new_unread(s) ==
  [ok |-> TRUE, ch |-> NUL, position |-> 0, read_position |-> 0]

\* Lexer::new: the fields as constructed, then read_char.
Lexer_new(s) == read_char(s, 0)

Init ==
  /\ input \in Inputs
  /\ position = Lexer_new(input).position
  /\ read_position = Lexer_new(input).read_position
  /\ ch = Lexer_new(input).ch
  /\ pc = "idle"
  /\ start = 0
  /\ tokens = <<>>
  /\ spans = <<>>
  /\ ret = "none_yet"
  /\ panic = NoPanic

\* A panic unwinds out of next(): the run of the caller is over.
Panic(why, at) ==
  /\ pc' = "panicked"
  /\ panic' = [why |-> why, at |-> at]
  /\ UNCHANGED <<input, lexer, start, tokens, spans, ret>>

\* next() returns Some(Token::new(kind, literal)), scanned from character
\* position from.
ReturnSome(kind, literal, from) ==
  /\ tokens' = Append(tokens, Token_new(kind, literal))
  /\ spans' = Append(spans, [start |-> from, end |-> position'])
  /\ ret' = "Some"
  /\ pc' = "idle"
  /\ UNCHANGED <<input, start, panic>>

\* The caller's loop calls next() again unless it has returned None.
NextCall ==
  /\ pc = "idle"
  /\ ret # "None"
  /\ pc' = "skip_whitespace"
  /\ UNCHANGED <<input, lexer, start, tokens, spans, ret, panic>>

\* skip_whitespace: one turn of its loop.
SkipWhitespaceStep ==
  /\ pc = "skip_whitespace"
  /\ is_whitespace(ch)
  /\ LET r == read_char(input, read_position) IN
       IF r.ok
       THEN /\ position' = r.position
            /\ read_position' = r.read_position
            /\ ch' = r.ch
            /\ UNCHANGED <<input, pc, start, tokens, spans, ret, panic>>
       ELSE Panic("unwrap", "skip_whitespace")

\* None returned after one more read_char.
ReturnNoneAdvancing ==
  /\ pc = "skip_whitespace"
  /\ ~is_whitespace(ch)
  /\ ch = NUL
  /\ position' = read_position
  /\ read_position' = read_position + 1
  /\ ch' = NUL
  /\ ret' = "None"
  /\ pc' = "idle"
  /\ UNCHANGED <<input, start, tokens, spans, panic>>

\* The end of the input answered by an Eof token instead of None.
ReturnEofToken ==
  /\ pc = "skip_whitespace"
  /\ ~is_whitespace(ch)
  /\ ch = NUL
  /\ UNCHANGED lexer
  /\ ReturnSome(Unit("Eof"), <<>>, position)

\* The loop of skip_whitespace is over and ch is '\0': return None.
ReturnNone ==
  /\ pc = "skip_whitespace"
  /\ ~is_whitespace(ch)
  /\ ch = NUL
  /\ ret' = "None"
  /\ pc' = "idle"
  /\ UNCHANGED <<input, lexer, start, tokens, spans, panic>>

\* Lexer::consume_char inside a match arm that makes a token of kind.
ConsumeCharArm(kind) ==
  LET r == read_char(input, read_position) IN
    IF r.ok
    THEN /\ position' = r.position
         /\ read_position' = r.read_position
         /\ ch' = r.ch
         /\ ReturnSome(kind, <<ch>>, position)
    ELSE Panic("unwrap", "consume_char")

\* The arms ';' .. '%' of the match.
MatchSingleChar ==
  /\ pc = "skip_whitespace"
  /\ ~is_whitespace(ch)
  /\ ch # NUL
  /\ ch \in SingleChars
  /\ ConsumeCharArm(Unit(SingleCharKind[ch]))

\* The arm `_ if self.is_letter()`: read_ident is entered.
MatchIdent ==
  /\ pc = "skip_whitespace"
  /\ ~is_whitespace(ch)
  /\ ch # NUL
  /\ ch \notin SingleChars
  /\ is_letter(ch)
  /\ start' = position
  /\ pc' = "read_ident"
  /\ UNCHANGED <<input, lexer, tokens, spans, ret, panic>>

\* One turn of the loop of read_ident or read_number.
ReadLoopStep ==
  LET r == read_char(input, read_position) IN
    IF r.ok
    THEN /\ position' = r.position
         /\ read_position' = r.read_position
         /\ ch' = r.ch
         /\ UNCHANGED <<input, pc, start, tokens, spans, ret, panic>>
    ELSE Panic("unwrap", pc)

\* The loop is over: the literal is input[start..position], made a token.
ReadLoopReturn(kind) ==
  IF slice_ok(input, start, position)
  THEN /\ UNCHANGED lexer
       /\ ReturnSome(kind, slice(input, start, position), start)
  ELSE Panic("slice", pc)

\* read_ident: one turn of `while self.is_letter()`.
ReadIdentStep ==
  /\ pc = "read_ident"
  /\ is_letter(ch)
  /\ ReadLoopStep

\* read_ident returns and next() returns the Ident.
ReadIdentReturn ==
  /\ pc = "read_ident"
  /\ ~is_letter(ch)
  /\ ReadLoopReturn(Unit("Ident"))

\* The arm `_ if self.is_digit()`: read_number is entered.
MatchNumber ==
  /\ pc = "skip_whitespace"
  /\ ~is_whitespace(ch)
  /\ ch # NUL
  /\ ch \notin SingleChars
  /\ ~is_letter(ch)
  /\ is_digit(ch)
  /\ start' = position
  /\ pc' = "read_number"
  /\ UNCHANGED <<input, lexer, tokens, spans, ret, panic>>

\* read_number: one turn of `while self.ch.is_ascii_digit()`.
ReadNumberStep ==
  /\ pc = "read_number"
  /\ is_ascii_digit(ch)
  /\ ReadLoopStep

\* read_number returns and next() returns the Literal.
ReadNumberReturn ==
  /\ pc = "read_number"
  /\ ~is_ascii_digit(ch)
  /\ ReadLoopReturn(Literal("Int"))

\* The arm `_`: an Unknown token of the one character.
MatchUnknown ==
  /\ pc = "skip_whitespace"
  /\ ~is_whitespace(ch)
  /\ ch # NUL
  /\ ch \notin SingleChars
  /\ ~is_letter(ch)
  /\ ~is_digit(ch)
  /\ ConsumeCharArm(Unit("Unknown"))

Next ==
  \/ NextCall
  \/ SkipWhitespaceStep
  \/ ReturnNone
  \/ MatchSingleChar
  \/ MatchIdent
  \/ ReadIdentStep
  \/ ReadIdentReturn
  \/ MatchNumber
  \/ ReadNumberStep
  \/ ReadNumberReturn
  \/ MatchUnknown

Spec == Init /\ [][Next]_vars

(***************************************************************************)
(* What the caller of the loop observes.                                   *)
(***************************************************************************)
\* The run is over: next() has returned None or has panicked.
RunOver == ~ENABLED Next

\* The characters of s that are not whitespace, in order.
WithoutWhitespace(s) == SelectSeq(s, LAMBDA c : ~is_whitespace(c))

RECURSIVE ConcatLiterals(_)
\* The literals of the tokens toks, concatenated in order.
ConcatLiterals(toks) ==
  IF toks = <<>> THEN <<>>
  ELSE Head(toks).literal \o ConcatLiterals(Tail(toks))

\* Whether p is an initial part of s.
IsPrefix(p, s) == Len(p) <= Len(s) /\ p = SubSeq(s, 1, Len(p))

\* The end (exclusive, from 0) of the longest run of characters satisfying
\* P that starts at character position from of s.
RunEnd(s, from, P(_)) ==
  CHOOSE e \in from..Len(s) :
    /\ \A i \in (from + 1)..e : P(s[i])
    /\ e = Len(s) \/ ~P(s[e + 1])

\* The longest run of characters satisfying P from character position from.
MaxRun(s, from, P(_)) == SubSeq(s, from + 1, RunEnd(s, from, P))

(***************************************************************************)
(* C1.  No step of Lexer::new followed by repeated next() panics, whatever *)
(* the input: read_char never unwraps None and read_ident and read_number  *)
(* never slice out of range or off a character boundary.                   *)
(***************************************************************************)
C1_NeverPanics == panic = NoPanic

(***************************************************************************)
(* C2.  Coverage round trip: the literals of the tokens yielded so far,    *)
(* concatenated, are an initial part of the input without its whitespace   *)
(* (nothing is duplicated or reordered), and once next() has returned None *)
(* they are all of it (nothing but whitespace is dropped).                 *)
(***************************************************************************)
C2_CoverageRoundTrip ==
  /\ IsPrefix(ConcatLiterals(tokens), WithoutWhitespace(input))
  /\ ret = "None" => ConcatLiterals(tokens) = WithoutWhitespace(input)

(***************************************************************************)
(* C3.  Termination: the loop that calls next() stops only by next()       *)
(* returning None; whenever no step of the loop is possible any more,      *)
(* exhaustion has been signalled.                                          *)
(***************************************************************************)
C3_StopsOnlyAtExhaustion == RunOver => ret = "None"

(***************************************************************************)
(* C4.  next() returns None exactly when the cursor is past the end of the *)
(* input: it has not returned None while position is the index of a        *)
(* character of the input, and a call that finds the cursor past the end   *)
(* finds the sentinel in ch.                                               *)
(***************************************************************************)
C4_NoneExactlyAtEnd ==
  /\ ret = "None" => position >= Len(input)
  /\ (pc = "skip_whitespace" /\ position >= Len(input)) => ch = NUL

(***************************************************************************)
(* The reference tokenization of C5: scan left to right, drop whitespace,  *)
(* one Ident per maximal run of ASCII letters and '_', one Literal{Int}    *)
(* per maximal run of ASCII digits, one token per other character.         *)
(***************************************************************************)
RefClass(c) ==
  IF c \in 65..90 \/ c \in 97..122 \/ c = 95 THEN "ident"
  ELSE IF c \in 48..57 THEN "int"
  ELSE "single"

\* The positions (from 1) of s at which a token of the reference starts.
RefStarts(s) ==
  {i \in 1..Len(s) :
     /\ ~is_whitespace(s[i])
     /\ \/ i = 1
        \/ RefClass(s[i]) = "single"
        \/ RefClass(s[i - 1]) # RefClass(s[i])
        \/ is_whitespace(s[i - 1])}

\* The position (from 1) of the last character of the token starting at i.
RefLast(s, i) ==
  IF RefClass(s[i]) = "single" THEN i
  ELSE CHOOSE j \in i..Len(s) :
         /\ \A k \in i..j : ~is_whitespace(s[k]) /\ RefClass(s[k]) = RefClass(s[i])
         /\ j = Len(s) \/ is_whitespace(s[j + 1])
              \/ RefClass(s[j + 1]) # RefClass(s[i])

\* The kind of the reference token that starts with character c.
RefKind(c) ==
  IF RefClass(c) = "ident" THEN Unit("Ident")
  ELSE IF RefClass(c) = "int" THEN Literal("Int")
  ELSE IF \E k \in OneCharKinds : KindSymbol[k] = c
  THEN Unit(CHOOSE k \in OneCharKinds : KindSymbol[k] = c)
  ELSE Unit("Unknown")

\* The reference token sequence of s.
Reference(s) ==
  LET starts == RefStarts(s)
      nth(k) == CHOOSE i \in starts : Cardinality({j \in starts : j < i}) = k - 1
  IN  [k \in 1..Cardinality(starts) |->
         Token_new(RefKind(s[nth(k)]), SubSeq(s, nth(k), RefLast(s, nth(k))))]

\* s is made of ASCII letters, '_', ASCII digits, the characters with a
\* match arm and whitespace.
IsPlainInput(s) ==
  \A i \in 1..Len(s) :
    \/ RefClass(s[i]) \in {"ident", "int"}
    \/ \E k \in OneCharKinds : KindSymbol[k] = s[i]
    \/ is_whitespace(s[i])

(***************************************************************************)
(* C5.  Reference tokenization: on an input made of ASCII letters, '_',    *)
(* ASCII digits, the listed symbols and whitespace, the tokens yielded so  *)
(* far are an initial part of the reference sequence and, when the run is  *)
(* over, all of it; the while-loop program yields the tokens its test      *)
(* lists.                                                                  *)
(***************************************************************************)
C5_ReferenceTokenization ==
  /\ IsPlainInput(input) =>
       /\ IsPrefix(tokens, Reference(input))
       /\ RunOver => tokens = Reference(input)
  /\ (input = WhileLoopInput /\ RunOver) => tokens = WhileLoopExpected

(***************************************************************************)
(* C6.  Single-character fidelity: an input of one character that has a    *)
(* match arm yields, when the run is over, exactly one token, of the kind  *)
(* token.rs documents for that character and with that character as its   *)
(* literal, and then None; and in any input every token of a one-char kind *)
(* has as literal the one character of its kind, which is the character of *)
(* the input it was scanned at, the cursor having advanced by one.         *)
(***************************************************************************)
C6_SingleCharFidelity ==
  /\ \A k \in OneCharKinds :
       (input = <<KindSymbol[k]>> /\ RunOver) =>
         /\ tokens = <<Token_new(Unit(k), <<KindSymbol[k]>>)>>
         /\ ret = "None"
  /\ \A i \in 1..Len(tokens) :
       \A k \in OneCharKinds :
         tokens[i].kind = Unit(k) =>
           /\ tokens[i].literal = <<KindSymbol[k]>>
           /\ spans[i].end = spans[i].start + 1
           /\ spans[i].start < Len(input)
           /\ input[spans[i].start + 1] = KindSymbol[k]

\* An input of the one character '%' has been scanned to the end.
C6_Witness ==
  /\ input = <<37>>
  /\ ret = "None"
  /\ tokens = <<Token_new(Unit("Percent"), <<37>>)>>

(***************************************************************************)
(* C7.  Identifier maximality: read_ident always returns, and every Ident  *)
(* token has as literal the maximal run of alphabetic-or-underscore        *)
(* characters that starts at the character it was scanned from, the cursor *)
(* being left on the first character after that run.                       *)
(***************************************************************************)
C7_IdentifierMaximality ==
  /\ panic.at # "read_ident"
  /\ \A i \in 1..Len(tokens) :
       tokens[i].kind = Unit("Ident") =>
         /\ tokens[i].literal = MaxRun(input, spans[i].start, is_letter)
         /\ tokens[i].literal # <<>>
         /\ spans[i].end = RunEnd(input, spans[i].start, is_letter)

(***************************************************************************)
(* C8.  Digit-run scanning: read_number always returns, every Literal      *)
(* token is a Literal{Int} whose literal is the maximal run of ASCII       *)
(* digits that starts at the character it was scanned from, and "5.0"      *)
(* yields Int "5", Dot ".", Int "0".                                       *)
(***************************************************************************)
C8_DigitRun ==
  /\ panic.at # "read_number"
  /\ \A i \in 1..Len(tokens) :
       tokens[i].kind[1] = "Literal" =>
         /\ tokens[i].kind = Literal("Int")
         /\ tokens[i].literal = MaxRun(input, spans[i].start, is_ascii_digit)
         /\ tokens[i].literal # <<>>
         /\ spans[i].end = RunEnd(input, spans[i].start, is_ascii_digit)
  /\ (input = <<53, 46, 48>> /\ RunOver) =>
       tokens = <<Token_new(Literal("Int"), <<53>>),
                  Token_new(Unit("Dot"), <<46>>),
                  Token_new(Literal("Int"), <<48>>)>>

(***************************************************************************)
(* C9.  Unknown fallback: when the match meets a character (the sentinel   *)
(* apart) that is not whitespace, has no arm of its own, is no letter and  *)
(* no digit, next() returns an Unknown token whose literal is that one     *)
(* character and the cursor has advanced by one character.                 *)
(***************************************************************************)
C9_UnknownFallback ==
  [][(/\ pc = "skip_whitespace"
      /\ ch # NUL
      /\ ~is_whitespace(ch)
      /\ ch \notin SingleChars
      /\ ~is_letter(ch)
      /\ ~is_digit(ch))
     => (/\ pc' = "idle"
         /\ ret' = "Some"
         /\ tokens' = Append(tokens, Token_new(Unit("Unknown"), <<ch>>))
         /\ position' = position + 1)]_vars

(***************************************************************************)
(* C10.  Character-position addressing: the literal of a token that        *)
(* read_ident or read_number scanned from character position s to          *)
(* character position e is the characters s..e-1 of the input.             *)
(***************************************************************************)
C10_CharacterAddressing ==
  \A i \in 1..Len(tokens) :
    tokens[i].kind \in {Unit("Ident"), Literal("Int")} =>
      tokens[i].literal = slice_by_chars(input, spans[i].start, spans[i].end)

(***************************************************************************)
(* C11.  Token literal well-formedness: every token returned by next() has *)
(* a literal that is not empty, holds no whitespace character and does not *)
(* hold the sentinel '\0'.                                                 *)
(***************************************************************************)
C11_LiteralWellFormed ==
  \A i \in 1..Len(tokens) :
    /\ tokens[i].literal # <<>>
    /\ \A j \in 1..Len(tokens[i].literal) :
         /\ ~is_whitespace(tokens[i].literal[j])
         /\ tokens[i].literal[j] # NUL

(***************************************************************************)
(* C12.  Cursor invariant: every call of read_char sets position to the    *)
(* old read_position, ch to the character of the input at that index, or   *)
(* to '\0' if the input has no such character, and adds one to             *)
(* read_position; and in every state read_position = position + 1 and ch   *)
(* is input[position] when position < length and '\0' otherwise.           *)
(***************************************************************************)
\* The step to come calls read_char (directly or through consume_char).
CallsReadChar ==
  \/ /\ pc = "skip_whitespace"
     /\ \/ is_whitespace(ch)
        \/ ch # NUL /\ (ch \in SingleChars \/ (~is_letter(ch) /\ ~is_digit(ch)))
  \/ pc = "read_ident" /\ is_letter(ch)
  \/ pc = "read_number" /\ is_ascii_digit(ch)

\* read_position and ch agree with position.
CursorInvariant ==
  /\ read_position = position + 1
  /\ ch = IF position < Len(input) THEN input[position + 1] ELSE NUL

C12_CursorInvariant ==
  [][/\ CursorInvariant
     /\ CursorInvariant'
     /\ CallsReadChar =>
          /\ position' = read_position
          /\ read_position' = read_position + 1
          /\ ch' = IF read_position < Len(input)
                   THEN input[read_position + 1] ELSE NUL]_vars

(***************************************************************************)
(* C13.  Progress: every call of next() that returns a token moves         *)
(* position forward by at least one character, by exactly the number of    *)
(* whitespace characters it skipped plus the number of characters of the   *)
(* literal it returns, and position never falls behind the end of the last *)
(* token.                                                                  *)
(***************************************************************************)
\* The position at which the call that returned token number i began.
CallPosition(i) == IF i = 1 THEN 0 ELSE spans[i - 1].end

C13_Progress ==
  /\ \A i \in 1..Len(tokens) :
       /\ spans[i].end > CallPosition(i)
       /\ spans[i].start >= CallPosition(i)
       /\ spans[i].end > spans[i].start
       /\ \A k \in CallPosition(i)..(spans[i].start - 1) :
            is_whitespace(input[k + 1])
       /\ spans[i].end - CallPosition(i) =
            (spans[i].start - CallPosition(i)) + Len(tokens[i].literal)
  /\ tokens # <<>> => position >= spans[Len(tokens)].end

(***************************************************************************)
(* C14.  Step count.  As claimed: when next() has returned None, the       *)
(* number of tokens returned is the number of maximal runs of              *)
(* non-whitespace characters of the input.                                 *)
(***************************************************************************)
\* The number of maximal runs of non-whitespace characters of s.
NonWhitespaceRuns(s) ==
  Cardinality({i \in 1..Len(s) :
                 ~is_whitespace(s[i]) /\ (i = 1 \/ is_whitespace(s[i - 1]))})

LexemeClass(c) ==
  IF is_alphabetic(c) \/ c = 95 THEN "ident"
  ELSE IF c \in 48..57 THEN "int"
  ELSE "single"

\* The number of lexemes of s: maximal runs of alphabetic-or-underscore
\* characters, maximal runs of ASCII digits, and single other characters
\* that are not whitespace.
Lexemes(s) ==
  Cardinality({i \in 1..Len(s) :
                 /\ ~is_whitespace(s[i])
                 /\ \/ i = 1
                    \/ LexemeClass(s[i]) = "single"
                    \/ is_whitespace(s[i - 1])
                    \/ LexemeClass(s[i - 1]) # LexemeClass(s[i])})

\* The part of s before its first '\0', all of s if it has none.
BeforeNul(s) ==
  IF \E i \in 1..Len(s) : s[i] = NUL
  THEN SubSeq(s, 1, (CHOOSE i \in 1..Len(s) :
                       s[i] = NUL /\ \A j \in 1..(i - 1) : s[j] # NUL) - 1)
  ELSE s

C15_Construction ==
  /\ (ret = "none_yet" /\ pc = "idle") =>
       /\ panic = NoPanic
       /\ tokens = <<>>
       /\ position = 0
       /\ read_position = 1
       /\ ch = IF input = <<>> THEN NUL ELSE input[1]
  /\ (ret = "Some" /\ Len(tokens) = 1) =>
       \A k \in 0..(spans[1].start - 1) : is_whitespace(input[k + 1])
  /\ input = <<>> =>
       /\ panic = NoPanic
       /\ tokens = <<>>
       /\ ch = NUL
       /\ RunOver => ret = "None"

\* The scanner constructed on the empty string has answered its first call.
C15_Witness ==
  /\ input = <<>>
  /\ ret = "None"
  /\ pc = "idle"

(***************************************************************************)
(* C17.  Never-emitted kinds: no token returned by next() has kind         *)
(* WhiteSpace or Eof, and every Literal token has LiteralKind Int; each    *)
(* token starts on a character that is not whitespace.                     *)
(***************************************************************************)
C17_NeverEmittedKinds ==
  /\ \A i \in 1..Len(tokens) :
       /\ tokens[i].kind \notin {Unit("WhiteSpace"), Unit("Eof")}
       /\ tokens[i].kind[1] = "Literal" => tokens[i].kind = Literal("Int")
       /\ ~is_whitespace(input[spans[i].start + 1])

\* An input with whitespace and digits has been scanned to the end.
C17_Witness ==
  /\ ret = "None"
  /\ \E i \in 1..Len(input) : is_whitespace(input[i])
  /\ \E i \in 1..Len(tokens) : tokens[i].kind = Literal("Int")

(***************************************************************************)
(* A caller that goes on calling next() after it has returned None.        *)
(***************************************************************************)
\* next() is called again although the last call returned None.
NextCallAgain ==
  /\ pc = "idle"
  /\ ret = "None"
  /\ pc' = "skip_whitespace"
  /\ UNCHANGED <<input, lexer, start, tokens, spans, ret, panic>>

NextAnyCalls ==
  \/ Next
  \/ NextCallAgain

SpecAnyCalls == Init /\ [][NextAnyCalls]_vars

(***************************************************************************)
(* C18.  Exhaustion is stable: once next() has returned None, no step of   *)
(* any later call changes input, position, read_position or ch, adds a     *)
(* token or panics, and every later call returns None again.               *)
(***************************************************************************)
C18_ExhaustionStable ==
  [][ret = "None" =>
       /\ ret' = "None"
       /\ UNCHANGED <<input, position, read_position, ch, tokens, panic>>
       /\ pc' \in {"idle", "skip_whitespace"}]_vars

\* A call of next() after the one that returned None is under way, on an
\* input that had tokens.
C18_Witness ==
  /\ ret = "None"
  /\ pc = "skip_whitespace"
  /\ tokens # <<>>

(***************************************************************************)
(* C19.  Cursor bound: whatever the sequence of next() calls, position is  *)
(* at most the length of the input, and the indices read_ident and         *)
(* read_number capture the literal with satisfy start <= end <= length.    *)
(***************************************************************************)
C19_CursorBound ==
  /\ position <= Len(input)
  /\ position <= len(input)
  /\ pc \in {"read_ident", "read_number"} => start <= position
  /\ \A i \in 1..Len(tokens) :
       spans[i].start <= spans[i].end /\ spans[i].end <= Len(input)

\* read_ident has run to one position past the last character.
C19_Witness ==
  /\ pc = "read_ident"
  /\ input # <<>>
  /\ start < position
  /\ position = Len(input)

(***************************************************************************)
(* A caller that uses the pub methods of Lexer directly, in any order,     *)
(* between calls of next(): read_char, consume_char, skip_whitespace,      *)
(* read_ident and read_number.  Each is one step; the strings they return  *)
(* are dropped.                                                            *)
(***************************************************************************)
\* The longest input of this caller, over Alphabet.
MaxOpsLen == 3

\* How far past the byte length of the input read_position is driven.
MaxPastEnd == 2

OpsInputs == UNION {[1..n -> Alphabet] : n \in 0..MaxOpsLen}

InitOps ==
  /\ input \in OpsInputs
  /\ position = Lexer_new(input).position
  /\ read_position = Lexer_new(input).read_position
  /\ ch = Lexer_new(input).ch
  /\ pc = "idle"
  /\ start = 0
  /\ tokens = <<>>
  /\ spans = <<>>
  /\ ret = "none_yet"
  /\ panic = NoPanic

\* The fields of the lexer as a record, as read_char gives them.
Fields == [ok |-> TRUE, ch |-> ch, position |-> position,
           read_position |-> read_position]

\* The loop predicate of skip_whitespace, read_ident or read_number.
LoopHolds(what, c) ==
  IF what = "skip_whitespace" THEN is_whitespace(c)
  ELSE IF what = "read_ident" THEN is_letter(c)
  ELSE is_ascii_digit(c)

RECURSIVE run_loop(_, _, _)
\* `while <predicate> { self.read_char(); }` from the fields l: the fields
\* when the loop ends, or, with ok false, when read_char panics.
run_loop(s, l, what) ==
  IF ~LoopHolds(what, l.ch) THEN l
  ELSE LET r == read_char(s, l.read_position) IN
         IF r.ok THEN run_loop(s, r, what) ELSE [l EXCEPT !.ok = FALSE]

\* The fields become l and the method returns, or it panics.
OpReturn(l, why, at) ==
  /\ position' = l.position
  /\ read_position' = l.read_position
  /\ ch' = l.ch
  /\ pc' = IF why = "none" THEN "idle" ELSE "panicked"
  /\ panic' = IF why = "none" THEN NoPanic ELSE [why |-> why, at |-> at]
  /\ UNCHANGED <<input, tokens, spans, ret>>

\* lexer.read_char()
OpReadChar ==
  /\ pc = "idle"
  /\ read_position < len(input) + MaxPastEnd
  /\ LET r == read_char(input, read_position) IN
       OpReturn(IF r.ok THEN r ELSE Fields,
                IF r.ok THEN "none" ELSE "unwrap", "read_char")
  /\ UNCHANGED start

\* lexer.consume_char()
OpConsumeChar ==
  /\ pc = "idle"
  /\ read_position < len(input) + MaxPastEnd
  /\ LET r == read_char(input, read_position) IN
       OpReturn(IF r.ok THEN r ELSE Fields,
                IF r.ok THEN "none" ELSE "unwrap", "consume_char")
  /\ UNCHANGED start

\* lexer.skip_whitespace()
OpSkipWhitespace ==
  /\ pc = "idle"
  /\ LET l == run_loop(input, Fields, "skip_whitespace") IN
       OpReturn(l, IF l.ok THEN "none" ELSE "unwrap", "skip_whitespace")
  /\ UNCHANGED start

\* read_ident or read_number: the loop, then &input[start..position].
OpReadRun(what) ==
  /\ pc = "idle"
  /\ start' = position
  /\ LET l == run_loop(input, Fields, what) IN
       OpReturn(l,
                IF ~l.ok THEN "unwrap"
                ELSE IF ~slice_ok(input, position, l.position) THEN "slice"
                ELSE "none",
                what)

\* lexer.read_ident()
OpReadIdent == OpReadRun("read_ident")

\* lexer.read_number()
OpReadNumber == OpReadRun("read_number")

NextOps ==
  \/ NextAnyCalls
  \/ OpReadChar
  \/ OpConsumeChar
  \/ OpSkipWhitespace
  \/ OpReadIdent
  \/ OpReadNumber

SpecOps == InitOps /\ [][NextOps]_vars

(***************************************************************************)
(* C16.  Sentinel policy: whatever the sequence of calls of read_char,     *)
(* consume_char, skip_whitespace, read_ident, read_number and next, no     *)
(* call panics, and a position past the end of the input is read as the    *)
(* sentinel '\0'.                                                          *)
(***************************************************************************)
C16_SentinelPolicy ==
  /\ pc # "panicked"
  /\ position >= Len(input) => ch = NUL

====
